---------------------------- MODULE Spec2Model ----------------------------
(***************************************************************************)
(* A model of mdbook-git's preprocessor (src/src/preprocessor.rs).         *)
(*                                                                         *)
(* A Rust &str is modelled as a sequence of one-character strings, so      *)
(* that splitting, trimming, prefix tests and byte offsets are computed    *)
(* the way the code computes them.  All characters used are ASCII: a byte  *)
(* offset is a character index (0-based in the code, the sequences here    *)
(* are 1-based; offsets are kept 0-based and converted where they slice).  *)
(***************************************************************************)
EXTENDS Integers, Sequences, FiniteSets, TLC

VARIABLES
    s,                   \* replace_all: the chapter text
    repo,                \* replace_all: the repository handle's content
    pc,                  \* position in the operation under way
    last_end,            \* replace_all: where the token scanner resumes
    replaced,            \* replace_all: the output String
    previous_end_index,  \* replace_all: local of the same name
    arg,                 \* the arguments of the pure function called
    ret,                 \* its result
    ret2                 \* the result of a second application (idempotence)

vars == <<s, repo, pc, last_end, replaced, previous_end_index, arg, ret, ret2>>

\* The value of the variables an operation does not use.
Idle == <<>>

-----------------------------------------------------------------------------
(* Bounds of the model. *)

\* Longest range expression handed to parse_range.
MaxExpr == 4
\* Highest line index tested for membership in a range.
MaxIdx == 12
\* Most entries of an array range expression.
MaxEntries == 3
\* Longest text handed to take_lines_comment_out_rest on its own.
MaxText == 4
\* Most words of a token body handed to the Command Parser on its own.
MaxWords == 5
\* Most options handed to git_diff on its own, before one more is added.
MaxOptions == 2
\* Most pieces (literal texts and tokens) of a chapter text.
MaxPieces == 3

-----------------------------------------------------------------------------
(* &str helpers of the standard library, as the code uses them. *)

Digits == {"0", "1", "2", "3", "4", "5", "6", "7", "8", "9"}

DigitVal(c) ==
    CASE c = "0" -> 0 [] c = "1" -> 1 [] c = "2" -> 2 [] c = "3" -> 3
      [] c = "4" -> 4 [] c = "5" -> 5 [] c = "6" -> 6 [] c = "7" -> 7
      [] c = "8" -> 8 [] c = "9" -> 9

\* char::is_whitespace, on the characters of the model.
IsWhitespace(c) == c \in {" ", "\n", "\t", "\r"}

\* All strings over alphabet A of length at most n.
Strs(A, n) == UNION {[1..k -> A] : k \in 0..n}

\* str::starts_with
StartsWith(str, p) ==
    Len(str) >= Len(p) /\ SubSeq(str, 1, Len(p)) = p

\* str::ends_with
EndsWith(str, p) ==
    Len(str) >= Len(p) /\ SubSeq(str, Len(str) - Len(p) + 1, Len(str)) = p

\* Index of the first occurrence of character c in str, 0 when absent.
RECURSIVE FindChar(_, _, _)
FindChar(str, c, i) ==
    IF i > Len(str) THEN 0
    ELSE IF str[i] = c THEN i
    ELSE FindChar(str, c, i + 1)

\* str::split(char): the pieces between occurrences of c; never empty.
RECURSIVE Split(_, _)
Split(str, c) ==
    LET i == FindChar(str, c, 1) IN
    IF i = 0 THEN <<str>>
    ELSE <<SubSeq(str, 1, i - 1)>> \o Split(SubSeq(str, i + 1, Len(str)), c)

\* str::split_once(char): <<>> for None, <<<<before, after>>>> for Some.
SplitOnce(str, c) ==
    LET i == FindChar(str, c, 1) IN
    IF i = 0 THEN <<>>
    ELSE << <<SubSeq(str, 1, i - 1), SubSeq(str, i + 1, Len(str))>> >>

RECURSIVE TrimStart(_)
TrimStart(str) ==
    IF str # <<>> /\ IsWhitespace(str[1]) THEN TrimStart(Tail(str)) ELSE str

RECURSIVE TrimEnd(_)
TrimEnd(str) ==
    IF str # <<>> /\ IsWhitespace(str[Len(str)])
    THEN TrimEnd(SubSeq(str, 1, Len(str) - 1))
    ELSE str

\* str::trim
Trim(str) == TrimEnd(TrimStart(str))

\* Length of the longest prefix of str made of non-whitespace characters.
RECURSIVE WordLen(_)
WordLen(str) ==
    IF str = <<>> \/ IsWhitespace(str[1]) THEN 0 ELSE 1 + WordLen(Tail(str))

\* str::split_whitespace: the maximal runs of non-whitespace characters.
RECURSIVE SplitWhitespace(_)
SplitWhitespace(str) ==
    LET t == TrimStart(str) IN
    IF t = <<>> THEN <<>>
    ELSE LET n == WordLen(t) IN
         <<SubSeq(t, 1, n)>> \o SplitWhitespace(SubSeq(t, n + 1, Len(t)))

\* [T]::join / concat: the pieces with sep between them.
RECURSIVE Join(_, _)
Join(pieces, sep) ==
    IF pieces = <<>> THEN <<>>
    ELSE IF Len(pieces) = 1 THEN pieces[1]
    ELSE pieces[1] \o sep \o Join(Tail(pieces), sep)

\* The decimal value of a non-empty string of digits.
RECURSIVE DecimalValue(_)
DecimalValue(str) ==
    IF str = <<>> THEN 0
    ELSE 10 * DecimalValue(SubSeq(str, 1, Len(str) - 1)) + DigitVal(str[Len(str)])

\* <usize as FromStr>::from_str (and u32's): an optional '+', then one or
\* more decimal digits.  <<>> for Err, <<n>> for Ok(n).  The strings of the
\* model are far shorter than the 20 digits that overflow a usize.
ParseUnsigned(str) ==
    LET body == IF str # <<>> /\ str[1] = "+" THEN Tail(str) ELSE str IN
    IF body # <<>> /\ \A i \in 1..Len(body) : body[i] \in Digits
    THEN <<DecimalValue(body)>>
    ELSE <<>>

-----------------------------------------------------------------------------
(* Range Model: std::ops::Bound, RangeBounds::contains, parse_range. *)

Unbounded == [kind |-> "Unbounded"]
Included(n) == [kind |-> "Included", n |-> n]
Excluded(n) == [kind |-> "Excluded", n |-> n]

\* RangeBounds::contains for a (Bound, Bound) pair.
Contains(range, i) ==
    /\ CASE range[1].kind = "Included" -> range[1].n <= i
         [] range[1].kind = "Excluded" -> range[1].n < i
         [] OTHER -> TRUE
    /\ CASE range[2].kind = "Included" -> i <= range[2].n
         [] range[2].kind = "Excluded" -> i < range[2].n
         [] OTHER -> TRUE

\* parse_range with the end of "N:M" taken as included.
ParseRangeEndIncluded(range) ==
    LET parts == Split(range, ":") IN
    IF parts = << <<>> >> THEN <<>>
    ELSE IF Len(parts) = 1 THEN
        LET line == ParseUnsigned(parts[1]) IN
        IF line = <<>> THEN <<>>
        ELSE << <<Included(line[1]), Included(line[1])>> >>
    ELSE IF Len(parts) = 2 THEN
        LET start == ParseUnsigned(parts[1])
            end == ParseUnsigned(parts[2]) IN
        IF parts[1] = <<>> /\ parts[2] = <<>> THEN << <<Unbounded, Unbounded>> >>
        ELSE IF parts[2] = <<>> THEN
            IF start = <<>> THEN <<>> ELSE << <<Included(start[1]), Unbounded>> >>
        ELSE IF parts[1] = <<>> THEN
            IF end = <<>> THEN <<>> ELSE << <<Unbounded, Excluded(end[1])>> >>
        ELSE IF start = <<>> \/ end = <<>> THEN <<>>
        ELSE << <<Included(start[1]), Included(end[1])>> >>
    ELSE <<>>

\* parse_range with the slice patterns of the match taken in order.
\* <<>> for None, <<range>> for Some(range).
ParseRange(range) ==
    LET parts == Split(range, ":") IN
    IF parts = << <<>> >> THEN <<>>
    ELSE IF Len(parts) = 1 THEN
        LET line == ParseUnsigned(parts[1]) IN
        IF line = <<>> THEN <<>>
        ELSE << <<Included(line[1]), Included(line[1])>> >>
    ELSE IF Len(parts) = 2 THEN
        LET start == ParseUnsigned(parts[1])
            end == ParseUnsigned(parts[2]) IN
        IF parts[1] = <<>> /\ parts[2] = <<>> THEN << <<Unbounded, Unbounded>> >>
        ELSE IF parts[2] = <<>> THEN
            IF start = <<>> THEN <<>> ELSE << <<Included(start[1]), Unbounded>> >>
        ELSE IF parts[1] = <<>> THEN
            IF end = <<>> THEN <<>> ELSE << <<Unbounded, Excluded(end[1])>> >>
        ELSE IF start = <<>> \/ end = <<>> THEN <<>>
        ELSE << <<Included(start[1]), Excluded(end[1])>> >>
    ELSE <<>>

\* parse_path_and_ranges with the entries of an array left untrimmed.
ParsePathAndRangesUntrimmed(path_and_range) ==
    LET split == SplitOnce(path_and_range, ":") IN
    IF split = <<>> THEN
        [path |-> path_and_range, ranges |-> << <<Unbounded, Unbounded>> >>]
    ELSE
        LET path == split[1][1]
            array == split[1][2]
        IN
        IF StartsWith(array, <<"[">>) /\ EndsWith(array, <<"]">>) THEN
            LET entries == Split(SubSeq(array, 2, Len(array) - 1), ",")
                Collect[k \in 0..Len(entries)] ==
                    IF k = 0 THEN <<>>
                    ELSE Collect[k - 1] \o ParseRange(entries[k])
            IN [path |-> path, ranges |-> Collect[Len(entries)]]
        ELSE [path |-> path, ranges |-> ParseRange(array)]

\* parse_path_and_ranges: the path and the Vec of ranges.
ParsePathAndRanges(path_and_range) ==
    LET split == SplitOnce(path_and_range, ":") IN
    IF split = <<>> THEN
        [path |-> path_and_range, ranges |-> << <<Unbounded, Unbounded>> >>]
    ELSE
        LET path == split[1][1]
            array == split[1][2]
        IN
        IF StartsWith(array, <<"[">>) /\ EndsWith(array, <<"]">>) THEN
            LET entries == Split(SubSeq(array, 2, Len(array) - 1), ",")
                Collect[k \in 0..Len(entries)] ==
                    IF k = 0 THEN <<>>
                    ELSE Collect[k - 1] \o ParseRange(Trim(entries[k]))
            IN [path |-> path, ranges |-> Collect[Len(entries)]]
        ELSE [path |-> path, ranges |-> ParseRange(array)]

-----------------------------------------------------------------------------
(* The Range Model called on its own: parse_range on every expression over *)
(* ExprAlphabet up to MaxExpr characters, parse_path_and_ranges on a path  *)
(* alone, a path with one range and a path with an array of entries.       *)

ExprAlphabet == {"0", "1", "2", ":", "x", "+"}

Paths == {<<"p">>, <<"s", "/", "m">>}

\* Array entries as written between the commas: well formed, padded with
\* whitespace, and malformed.
EntryPool ==
    { <<"2">>, <<" ", "4", ":", "8">>, <<"1", "6", ":", " ">>, <<":">>,
      <<>>, <<"x">>, <<"1", ":", "2", ":", "3">> }

ArrayText(entries) == <<"[">> \o Join(entries, <<",">>) \o <<"]">>

RangeArgs ==
    {[fn |-> "parse_range", range |-> e] : e \in Strs(ExprAlphabet, MaxExpr)}

PathArgs ==
    {[fn |-> "parse_path_and_ranges", form |-> "bare", path |-> p,
      entries |-> <<>>, path_and_range |-> p] : p \in Paths}
    \cup
    {[fn |-> "parse_path_and_ranges", form |-> "single", path |-> p,
      entries |-> <<e>>, path_and_range |-> p \o <<":">> \o e] :
        p \in Paths, e \in EntryPool}
    \cup
    {[fn |-> "parse_path_and_ranges", form |-> "array", path |-> p,
      entries |-> es, path_and_range |-> p \o <<":">> \o ArrayText(es)] :
        p \in Paths, es \in Strs(EntryPool, MaxEntries)}

InitRange ==
    /\ arg \in RangeArgs \cup PathArgs
    /\ pc = "call"
    /\ ret = Idle
    /\ ret2 = Idle
    /\ s = Idle /\ repo = Idle /\ last_end = 0 /\ replaced = Idle
    /\ previous_end_index = 0

CallParseRange ==
    /\ pc = "call"
    /\ arg.fn = "parse_range"
    /\ ret' = ParseRange(arg.range)
    /\ pc' = "done"
    /\ UNCHANGED <<s, repo, last_end, replaced, previous_end_index, arg, ret2>>

CallParsePathAndRanges ==
    /\ pc = "call"
    /\ arg.fn = "parse_path_and_ranges"
    /\ ret' = ParsePathAndRanges(arg.path_and_range)
    /\ pc' = "done"
    /\ UNCHANGED <<s, repo, last_end, replaced, previous_end_index, arg, ret2>>

NextRange == CallParseRange \/ CallParsePathAndRanges

SpecRange == InitRange /\ [][NextRange]_vars

-----------------------------------------------------------------------------
(* The grammar table of single-range expressions, stated on the shape of   *)
(* the expression: the number of colons and what stands on either side.    *)

\* A number as the line-index type reads it: decimal digits, which
\* usize::from_str lets a single '+' precede.
Numeral(e) ==
    LET d == IF e # <<>> /\ e[1] = "+" THEN SubSeq(e, 2, Len(e)) ELSE e IN
    d # <<>> /\ \A i \in 1..Len(d) : d[i] \in Digits

Pow10[k \in Nat] == IF k = 0 THEN 1 ELSE 10 * Pow10[k - 1]

NumeralValue(e) ==
    LET W[i \in 0..Len(e)] ==
            IF i = 0 THEN 0
            ELSE W[i - 1] + (IF e[i] = "+" THEN 0
                             ELSE DigitVal(e[i]) * Pow10[Len(e) - i])
    IN W[Len(e)]

Colons(e) == {i \in 1..Len(e) : e[i] = ":"}

TableRange(e) ==
    IF Cardinality(Colons(e)) = 0 THEN
        IF Numeral(e)
        THEN << <<Included(NumeralValue(e)), Included(NumeralValue(e))>> >>
        ELSE <<>>
    ELSE IF Cardinality(Colons(e)) = 1 THEN
        LET k == CHOOSE i \in Colons(e) : TRUE
            N == SubSeq(e, 1, k - 1)
            M == SubSeq(e, k + 1, Len(e))
        IN
        IF N = <<>> /\ M = <<>> THEN << <<Unbounded, Unbounded>> >>
        ELSE IF M = <<>> /\ Numeral(N)
            THEN << <<Included(NumeralValue(N)), Unbounded>> >>
        ELSE IF N = <<>> /\ Numeral(M)
            THEN << <<Unbounded, Excluded(NumeralValue(M))>> >>
        ELSE IF Numeral(N) /\ Numeral(M)
            THEN << <<Included(NumeralValue(N)), Excluded(NumeralValue(M))>> >>
        ELSE <<>>
    ELSE <<>>

\* C4: parse_range maps "N", ":", "N:", ":N" and "N:M" to the bounds of the
\* grammar table and yields no range for "", for more than one colon and for
\* a bound that is not a number; for N < M the range of "N:M" contains
\* exactly the line indices N..M-1.
C4_ParseRangeTable ==
    (pc = "done" /\ arg.fn = "parse_range") =>
        /\ ret = TableRange(arg.range)
        /\ (arg.range = <<>> => ret = <<>>)
        /\ (Cardinality(Colons(arg.range)) > 1 => ret = <<>>)
        /\ LET e == arg.range IN
           \A k \in Colons(e) :
               LET N == SubSeq(e, 1, k - 1)
                   M == SubSeq(e, k + 1, Len(e))
               IN
               (Numeral(N) /\ Numeral(M) /\ NumeralValue(N) < NumeralValue(M)) =>
                   /\ Len(ret) = 1
                   /\ \A i \in 0..MaxIdx :
                          Contains(ret[1], i) <=>
                              (NumeralValue(N) <= i /\ i < NumeralValue(M))

\* An expression "N:M" with N < M has been parsed.
C4_Witness ==
    /\ pc = "done"
    /\ arg.fn = "parse_range"
    /\ arg.range = <<"1", ":", "1", "0">>
    /\ ret = << <<Included(1), Excluded(10)>> >>

\* The ranges of the entries that parse, in the order of the entries.
RECURSIVE EntryRanges(_)
EntryRanges(entries) ==
    IF entries = <<>> THEN <<>>
    ELSE TableRange(Trim(Head(entries))) \o EntryRanges(Tail(entries))

\* C5: on path:[e1,...,ek] parse_path_and_ranges returns the bare path and
\* exactly the ranges of the entries that parse after trimming, in order,
\* duplicates and overlaps kept; a malformed entry removes no other entry,
\* and the RangeSet is empty only when no entry parses.
C5_ArrayEntries ==
    (pc = "done" /\ arg.fn = "parse_path_and_ranges" /\ arg.form = "array") =>
        /\ ret.path = arg.path
        /\ ret.ranges = EntryRanges(arg.entries)
        /\ Len(ret.ranges) =
               Cardinality({k \in 1..Len(arg.entries) :
                                TableRange(Trim(arg.entries[k])) # <<>>})
        /\ (ret.ranges = <<>> <=>
               \A k \in 1..Len(arg.entries) :
                   TableRange(Trim(arg.entries[k])) = <<>>)

\* An array with a malformed entry between two entries that parse, one of
\* them a duplicate, has been parsed.
C5_Witness ==
    /\ pc = "done"
    /\ arg.fn = "parse_path_and_ranges"
    /\ arg.form = "array"
    /\ arg.entries = << <<"2">>, <<"x">>, <<"2">> >>
    /\ ret.ranges = << <<Included(2), Included(2)>>, <<Included(2), Included(2)>> >>

-----------------------------------------------------------------------------
(* Line Annotator: str::lines and take_lines_comment_out_rest. *)

\* str::split_inclusive('\n'): the pieces, each with its terminator.
RECURSIVE SplitInclusive(_)
SplitInclusive(str) ==
    IF str = <<>> THEN <<>>
    ELSE LET i == FindChar(str, "\n", 1) IN
         IF i = 0 THEN <<str>>
         ELSE <<SubSeq(str, 1, i)>> \o SplitInclusive(SubSeq(str, i + 1, Len(str)))

\* The closure of str::lines: a piece loses its final "\n" and then a final
\* "\r"; a last piece without "\n" is kept as it is.
StripLineEnding(piece) ==
    IF EndsWith(piece, <<"\r", "\n">>) THEN SubSeq(piece, 1, Len(piece) - 2)
    ELSE IF EndsWith(piece, <<"\n">>) THEN SubSeq(piece, 1, Len(piece) - 1)
    ELSE piece

\* str::lines
Lines(str) ==
    LET pieces == SplitInclusive(str) IN
    [k \in 1..Len(pieces) |-> StripLineEnding(pieces[k])]

CommentMarker == <<"#", " ">>

\* The loop body of take_lines_comment_out_rest for line i (0-based).
AnnotateLine(line, i, ranges) ==
    IF /\ ~StartsWith(line, CommentMarker)
       /\ \A r \in 1..Len(ranges) : ~Contains(ranges[r], i)
    THEN CommentMarker \o line
    ELSE line

\* take_lines_comment_out_rest
TakeLinesCommentOutRest(str, ranges) ==
    LET lines == Lines(str) IN
    Join([k \in 1..Len(lines) |-> AnnotateLine(lines[k], k - 1, ranges)], <<"\n">>)

-----------------------------------------------------------------------------
(* The Line Annotator called on its own, once and then again on its own    *)
(* output, on every text over TextAlphabet up to MaxText characters.       *)

TextAlphabet == {"a", "#", " ", "\n", "\r"}

RangeSets ==
    { <<>>,
      << <<Unbounded, Unbounded>> >>,
      << <<Included(0), Included(0)>> >>,
      << <<Included(1), Unbounded>> >>,
      << <<Unbounded, Excluded(1)>>, <<Included(2), Excluded(3)>> >> }

InitLines ==
    /\ arg \in {[fn |-> "take_lines_comment_out_rest", s |-> t, ranges |-> R] :
                    t \in Strs(TextAlphabet, MaxText), R \in RangeSets}
    /\ pc = "call"
    /\ ret = Idle
    /\ ret2 = Idle
    /\ s = Idle /\ repo = Idle /\ last_end = 0 /\ replaced = Idle
    /\ previous_end_index = 0

Annotate ==
    /\ pc = "call"
    /\ ret' = TakeLinesCommentOutRest(arg.s, arg.ranges)
    /\ pc' = "annotated"
    /\ UNCHANGED <<s, repo, last_end, replaced, previous_end_index, arg, ret2>>

AnnotateAgain ==
    /\ pc = "annotated"
    /\ ret2' = TakeLinesCommentOutRest(ret, arg.ranges)
    /\ pc' = "annotated twice"
    /\ UNCHANGED <<s, repo, last_end, replaced, previous_end_index, arg, ret>>

NextLines == Annotate \/ AnnotateAgain

SpecLines == InitLines /\ [][NextLines]_vars

Selected(ranges, i) == \E r \in 1..Len(ranges) : Contains(ranges[r], i)

\* C3: take_lines_comment_out_rest returns a text with as many lines as its
\* input, in which line i is input line i when a range selects i or the
\* line starts with "# ", and "# " followed by input line i otherwise;
\* a line is what str::lines yields.
C3_SameLinesAnnotated ==
    (pc = "annotated") =>
        LET in == Lines(arg.s)
            out == Lines(ret)
        IN
        /\ Len(out) = Len(in)
        /\ \A k \in 1..Len(in) :
               out[k] = IF Selected(arg.ranges, k - 1) \/ StartsWith(in[k], CommentMarker)
                        THEN in[k]
                        ELSE CommentMarker \o in[k]

\* C9: annotating the annotated text again with the same RangeSet returns
\* the same string.
C9_Idempotent ==
    (pc = "annotated twice") => ret2 = ret

-----------------------------------------------------------------------------
(* Command Parser: impl TryFrom<Captures> for GitType. *)

\* The key of the comparator handed to sort_unstable_by.
IsOption(tok) == StartsWith(tok, <<"-">>)

NotOption(tok) == ~IsOption(tok)

\* The tokens ordered by the key with equal tokens left in their order.
StablePartition(toks) == SelectSeq(toks, NotOption) \o SelectSeq(toks, IsOption)

SwapAt(seq, i, j) ==
    [k \in 1..Len(seq) |-> IF k = i THEN seq[j] ELSE IF k = j THEN seq[i] ELSE seq[k]]

\* core::slice::sort::unstable insertion-sorts a slice of up to this many
\* elements, which keeps equal elements in their order.
InsertionSortMax == 20

\* The results slice::sort_unstable_by may leave: ordered by the key; the
\* order of equal elements kept in a slice the library insertion-sorts and
\* unspecified in a longer one, where every exchange of two equal elements
\* is taken as possible.
SortUnstableBy(toks) ==
    LET stable == StablePartition(toks) IN
    IF Len(toks) <= InsertionSortMax THEN {stable}
    ELSE {stable} \cup
         {SwapAt(stable, i, j) : <<i, j>> \in
             {p \in (1..Len(toks)) \X (1..Len(toks)) :
                 p[1] < p[2] /\ IsOption(stable[p[1]]) = IsOption(stable[p[2]])}}

NotACommand == [ok |-> FALSE]

\* The match on the sorted tokens and what its arms build.
GitTypeFrom(subcmd) ==
    IF Len(subcmd) >= 2 /\ subcmd[1] = <<"s", "h", "o", "w">> THEN
        LET split == SplitOnce(subcmd[2], ":") IN
        IF split = <<>> THEN NotACommand
        ELSE LET parsed == ParsePathAndRanges(split[1][2]) IN
             IF Len(parsed.ranges) # 0
             THEN [ok |-> TRUE, typ |-> "Show", id |-> split[1][1],
                   path |-> parsed.path, ranges |-> parsed.ranges]
             ELSE NotACommand
    ELSE IF Len(subcmd) >= 4 /\ subcmd[1] = <<"d", "i", "f", "f">> THEN
        LET parsed == ParsePathAndRanges(subcmd[4]) IN
        IF Len(parsed.ranges) # 0
        THEN [ok |-> TRUE, typ |-> "Diff", old |-> subcmd[2], new |-> subcmd[3],
              path |-> parsed.path, ranges |-> parsed.ranges,
              options |-> SubSeq(subcmd, 5, Len(subcmd))]
        ELSE NotACommand
    ELSE NotACommand

\* GitType::try_from on a captured body: the tokens as sorted, and the
\* command built from them, for every result the sort may leave.
TryFromResults(body) ==
    {[subcmd |-> sorted, cmd |-> GitTypeFrom(sorted)] :
        sorted \in SortUnstableBy(SplitWhitespace(body))}

-----------------------------------------------------------------------------
(* The Command Parser called on its own: on every body of up to MaxWords   *)
(* words of Words, and on show and diff bodies whose range expression is   *)
(* an array, written with and without whitespace after the commas.         *)

Words == {<<"s", "h", "o", "w">>, <<"d", "i", "f", "f">>, <<"a">>, <<"b">>, <<"p", ":", "1">>, <<"-", "h">>}

CompactEntries == {<<"2">>, <<"4", ":", "8">>, <<"1", "6", ":">>}

ArrayBodyPrefix == [show |-> <<"s", "h", "o", "w", " ", "a", ":", "p", ":">>, diff |-> <<"d", "i", "f", "f", " ", "a", " ", "b", " ", "p", ":">>]

WordArgs ==
    {[fn |-> "try_from", form |-> "words", body |-> Join(ws, <<" ">>)] :
        ws \in Strs(Words, MaxWords)}

ArrayArgs ==
    {[fn |-> "try_from", form |-> "array",
      body |-> ArrayBodyPrefix[k] \o <<"[">> \o Join(es, <<",", " ">>) \o <<"]">>,
      compact |-> ArrayBodyPrefix[k] \o <<"[">> \o Join(es, <<",">>) \o <<"]">>] :
        k \in {"show", "diff"}, es \in Strs(CompactEntries, MaxEntries) \ {<<>>}}

\* diff a b p with one flag written first and n flags after it.
LongBody(n) ==
    Join(<<<<"-", "h">>, <<"d", "i", "f", "f">>, <<"a">>, <<"b">>, <<"p">>>> \o [i \in 1..n |-> <<"-", "x">>], <<" ">>)

LongArgs ==
    {[fn |-> "try_from", form |-> "words", body |-> LongBody(n)] :
        n \in {InsertionSortMax - 5, InsertionSortMax - 4}}

InitParse ==
    /\ arg \in WordArgs \cup ArrayArgs
    /\ pc = "call"
    /\ ret = Idle
    /\ ret2 = Idle
    /\ s = Idle /\ repo = Idle /\ last_end = 0 /\ replaced = Idle
    /\ previous_end_index = 0

InitSort ==
    /\ arg \in WordArgs \cup ArrayArgs \cup LongArgs
    /\ pc = "call"
    /\ ret = Idle
    /\ ret2 = Idle
    /\ s = Idle /\ repo = Idle /\ last_end = 0 /\ replaced = Idle
    /\ previous_end_index = 0

TryFrom ==
    /\ pc = "call"
    /\ ret' \in TryFromResults(arg.body)
    /\ pc' = "parsed"
    /\ UNCHANGED <<s, repo, last_end, replaced, previous_end_index, arg, ret2>>

\* The same call on the body with its array written without whitespace.
TryFromCompact ==
    /\ pc = "parsed"
    /\ arg.form = "array"
    /\ ret2' \in TryFromResults(arg.compact)
    /\ pc' = "parsed both"
    /\ UNCHANGED <<s, repo, last_end, replaced, previous_end_index, arg, ret>>

NextParse == TryFrom \/ TryFromCompact

SpecParse == InitParse /\ [][NextParse]_vars

SpecSort == InitSort /\ [][NextParse]_vars

Positional(body) == SelectSeq(SplitWhitespace(body), NotOption)

\* C6: a body whose first positional token is diff is accepted only when
\* exactly three positional tokens follow it, which become old_revision,
\* new_revision and path_and_ranges; with fewer or more it is a parse
\* failure, and no token starting with '-' is taken as a revision or as
\* the path.
C6_DiffExactlyThreePositional ==
    (/\ pc = "parsed"
     /\ Positional(arg.body) # <<>>
     /\ Head(Positional(arg.body)) = <<"d", "i", "f", "f">>) =>
        LET pos == Positional(arg.body) IN
        /\ (Len(pos) # 4 => ~ret.cmd.ok)
        /\ ret.cmd.ok =>
               /\ ret.cmd.typ = "Diff"
               /\ ret.cmd.old = pos[2]
               /\ ret.cmd.new = pos[3]
               /\ ret.cmd.path = ParsePathAndRanges(pos[4]).path
               /\ ret.cmd.ranges = ParsePathAndRanges(pos[4]).ranges
               /\ ~IsOption(ret.cmd.old)
               /\ ~IsOption(ret.cmd.new)
               /\ ~IsOption(ret.cmd.path)

\* C7: the reordering of the tokens is a stable partition by "starts with
\* '-'": every positional token precedes every flag, and the positional
\* tokens and the flags each keep their original relative order.
C7_StablePartition ==
    (pc = "parsed") =>
        LET toks == SplitWhitespace(arg.body)
            sub == ret.subcmd
        IN
        /\ \A i, j \in 1..Len(sub) : (i < j /\ IsOption(sub[i])) => IsOption(sub[j])
        /\ SelectSeq(sub, NotOption) = SelectSeq(toks, NotOption)
        /\ SelectSeq(sub, IsOption) = SelectSeq(toks, IsOption)

\* C10: a show or diff body whose array is written with whitespace after
\* the commas is parsed into a Command with the path and the RangeSet of
\* the body with the array written without whitespace.
C10_ArrayWithWhitespace ==
    (pc = "parsed both" /\ arg.form = "array") =>
        /\ ret2.cmd.ok
        /\ ret.cmd.ok
        /\ ret.cmd.path = ret2.cmd.path
        /\ ret.cmd.ranges = ret2.cmd.ranges

-----------------------------------------------------------------------------
(* Content Resolver: git_show and git_diff over the repository handle.     *)
(* The repository is the git2 collaborator: what it holds is a value of    *)
(* the variable repo, a set of commits of one history in which the file p  *)
(* reads "x\ny\n" at commit a and "x\nz\n" at commit b.                    *)

Failed == [ok |-> FALSE]

Ok(contents) == [ok |-> TRUE, contents |-> contents]

\* Oid::from_str, find_commit, tree, get_path, to_object, as_blob and
\* from_utf8 of git_show: the blob's text, or the failure of any of them.
FetchFile(r, id, path) ==
    IF id \in r.commits /\ path = <<"p">>
    THEN Ok(IF id = <<"a">> THEN <<"x", "\n", "y", "\n">> ELSE <<"x", "\n", "z", "\n">>)
    ELSE Failed

\* diff_tree_to_tree and Diff::print of git_diff: the lines of the patch
\* restricted to path, each with its origin (F file header, H hunk header,
\* ' ' context, '-' deletion, '+' addition) and its content.  A pathspec
\* that matches nothing, or equal trees, give an empty patch; context_lines
\* is <<>> when not set and <<n>> when set, and 0 leaves no context line.
PatchLines(old, new, path, context_lines) ==
    IF path # <<"p">> \/ old = new THEN <<>>
    ELSE LET context == IF context_lines = <<0>> THEN <<>>
                        ELSE <<[origin |-> " ", content |-> <<"x", "\n">>]>>
         IN <<[origin |-> "F", content |-> <<"d", "\n", "-", "\n">>],
              [origin |-> "H", content |-> <<"@", "\n">>]>>
            \o context
            \o <<[origin |-> "-", content |-> IF old = <<"a">> THEN <<"y", "\n">> ELSE <<"z", "\n">>],
                 [origin |-> "+", content |-> IF new = <<"a">> THEN <<"y", "\n">> ELSE <<"z", "\n">>]>>

\* The "handle options" block of git_diff: the first option starting with
\* "-U" has its rest parsed as the context line count, and a parse error
\* is returned by the `?`; any option starting with "-h" sets the hide mode.
RECURSIVE FindContextOption(_)
FindContextOption(options) ==
    IF options = <<>> THEN <<>>
    ELSE IF StartsWith(Head(options), <<"-", "U">>)
         THEN <<ParseUnsigned(SubSeq(Head(options), 3, Len(Head(options))))>>
         ELSE FindContextOption(Tail(options))

DiffOptionsOf(options) ==
    LET found == FindContextOption(options) IN
    IF found # <<>> /\ found[1] = <<>> THEN [ok |-> FALSE]
    ELSE [ok |-> TRUE,
          context_lines |-> IF found = <<>> THEN <<>> ELSE found[1],
          hide_header_and_deletion |->
              \E k \in 1..Len(options) : StartsWith(options[k], <<"-", "h">>)]

\* The closure handed to Diff::print, for one line of the patch.
FormatDiffLine(line, hide_header_and_deletion) ==
    LET hidden == IF hide_header_and_deletion /\ line.origin \notin {"+", " "}
                  THEN CommentMarker ELSE <<>>
        origin == IF line.origin \in {"+", "-", " "} THEN <<line.origin>> ELSE <<>>
        parts == Lines(line.content)
    IN Join([k \in 1..Len(parts) |-> hidden \o origin \o parts[k] \o <<"\n">>], <<>>)

\* git_diff: the text returned, with the options that were in effect.
GitDiff(old, new, path, ranges, options, r) ==
    IF old \notin r.commits \/ new \notin r.commits THEN Failed
    ELSE LET opts == DiffOptionsOf(options) IN
         IF ~opts.ok THEN Failed
         ELSE LET patch == PatchLines(old, new, path, opts.context_lines)
                  str == Join([k \in 1..Len(patch) |->
                                  FormatDiffLine(patch[k], opts.hide_header_and_deletion)],
                              <<>>)
              IN [ok |-> TRUE,
                  contents |-> TakeLinesCommentOutRest(str, ranges),
                  context_lines |-> opts.context_lines,
                  hide_header_and_deletion |-> opts.hide_header_and_deletion]

\* git_show
GitShow(id, path, ranges, r) ==
    LET blob == FetchFile(r, id, path) IN
    IF blob.ok THEN Ok(TakeLinesCommentOutRest(blob.contents, ranges)) ELSE Failed

NoRepo == [configured |-> FALSE]

Repos ==
    {[configured |-> TRUE, commits |-> c] :
        c \in {{}, {<<"a">>}, {<<"a">>, <<"b">>}}}

-----------------------------------------------------------------------------
(* git_diff called on its own with a list of options, and again with one   *)
(* more option token put into the list.                                    *)

OptionPool == {<<"-", "U", "1">>, <<"-", "U", "0">>, <<"-", "h">>, <<"-", "U", "x">>, <<"-", "h", "x">>, <<"-", "x">>, <<"-", "U">>}

InsertAt(seq, k, x) == SubSeq(seq, 1, k) \o <<x>> \o SubSeq(seq, k + 1, Len(seq))

InitDiff ==
    /\ arg \in {[fn |-> "git_diff", options |-> os, extra |-> x, at |-> k,
                 ranges |-> R] :
                    os \in Strs(OptionPool, MaxOptions), x \in OptionPool,
                    k \in 0..MaxOptions,
                    R \in {<< <<Unbounded, Unbounded>> >>,
                           << <<Included(1), Excluded(4)>> >>}}
    /\ arg.at <= Len(arg.options)
    /\ repo \in Repos
    /\ pc = "call"
    /\ ret = Idle
    /\ ret2 = Idle
    /\ s = Idle /\ last_end = 0 /\ replaced = Idle
    /\ previous_end_index = 0

CallGitDiff ==
    /\ pc = "call"
    /\ ret' = GitDiff(<<"a">>, <<"b">>, <<"p">>, arg.ranges, arg.options, repo)
    /\ pc' = "diffed"
    /\ UNCHANGED <<s, repo, last_end, replaced, previous_end_index, arg, ret2>>

CallGitDiffWithExtra ==
    /\ pc = "diffed"
    /\ LET options == InsertAt(arg.options, arg.at, arg.extra) IN
       ret2' = GitDiff(<<"a">>, <<"b">>, <<"p">>, arg.ranges, options, repo)
    /\ pc' = "diffed both"
    /\ UNCHANGED <<s, repo, last_end, replaced, previous_end_index, arg, ret>>

NextDiff == CallGitDiff \/ CallGitDiffWithExtra

SpecDiff == InitDiff /\ [][NextDiff]_vars

\* -U<digits> or -h, the options the spec names.
Recognized(tok) ==
    \/ tok = <<"-", "h">>
    \/ /\ StartsWith(tok, <<"-", "U">>)
       /\ Len(tok) > 2
       /\ \A k \in 3..Len(tok) : tok[k] \in Digits

\* C8: an option token that is neither -U<digits> nor -h is ignored: adding
\* it changes neither the context line count nor hide_header_and_deletion,
\* and a resolution that succeeds without it succeeds with it and renders
\* the same text.
C8_UnknownOptionIgnored ==
    (pc = "diffed both" /\ ~Recognized(arg.extra) /\ ret.ok) =>
        /\ ret2.ok
        /\ ret2.context_lines = ret.context_lines
        /\ ret2.hide_header_and_deletion = ret.hide_header_and_deletion
        /\ ret2.contents = ret.contents

-----------------------------------------------------------------------------
(* Token Scanner: find_git_cmds, the regex                                  *)
(*     \{\{\s*\#git\s+([^}]+)\}\}                                           *)
(* matched leftmost-first, each search resuming where the last match ended. *)

RECURSIVE SkipWhitespace(_, _)
\* The first index from i on that holds no whitespace (Len + 1 at the end).
SkipWhitespace(str, i) ==
    IF i <= Len(str) /\ IsWhitespace(str[i]) THEN SkipWhitespace(str, i + 1) ELSE i

RECURSIVE SkipBody(_, _)
\* The first index from i on that holds a '}' (Len + 1 at the end).
SkipBody(str, i) ==
    IF i <= Len(str) /\ str[i] # "}" THEN SkipBody(str, i + 1) ELSE i

\* The match that starts at index i, <<>> when there is none: its span as
\* 0-based byte offsets [start, end) and the text of capture group 1.
\* After "#git" comes a run of characters other than '}' that starts with
\* whitespace and is followed by "}}"; \s+ takes the whitespace the run
\* starts with and ([^}]+) the rest, or, in a run of whitespace only, \s+
\* gives its last character back to the group.
MatchAt(str, i) ==
    IF ~(i + 1 <= Len(str) /\ str[i] = "{" /\ str[i + 1] = "{") THEN <<>>
    ELSE
        LET g == SkipWhitespace(str, i + 2) IN
        IF ~(g + 3 <= Len(str) /\ SubSeq(str, g, g + 3) = <<"#", "g", "i", "t">>) THEN <<>>
        ELSE
            LET run == g + 4
                close == SkipBody(str, run)
                word == SkipWhitespace(str, run)
            IN
            IF /\ close - run >= 2
               /\ IsWhitespace(str[run])
               /\ close + 1 <= Len(str)
               /\ str[close] = "}"
               /\ str[close + 1] = "}"
            THEN <<[start |-> i - 1,
                    end |-> close + 1,
                    body |-> IF word < close THEN SubSeq(str, word, close - 1)
                             ELSE SubSeq(str, close - 1, close - 1)]>>
            ELSE <<>>

RECURSIVE FindFrom(_, _)
FindFrom(str, i) ==
    IF i > Len(str) THEN <<>>
    ELSE IF MatchAt(str, i) # <<>> THEN MatchAt(str, i)
    ELSE FindFrom(str, i + 1)

\* The next item of captures_iter, searching from byte offset `from`.
NextCaptures(str, from) == FindFrom(str, from + 1)

-----------------------------------------------------------------------------
(* replace_all, one iteration of its loop at a time. *)

\* &s[a..b]
Slice(str, a, b) == SubSeq(str, a + 1, b)

\* The match arms of the loop: git_show or git_diff on the command.
Resolve(cmd, r) ==
    IF cmd.typ = "Show" THEN GitShow(cmd.id, cmd.path, cmd.ranges, r)
    ELSE GitDiff(cmd.old, cmd.new, cmd.path, cmd.ranges, cmd.options, r)

\* The chapter text is written as a sequence of pieces: literal text, and
\* tokens with the command their author wrote.
Pieces ==
    { [token |-> FALSE, text |-> <<"x">>, body |-> <<>>],
      [token |-> FALSE, text |-> <<"{", "{">>, body |-> <<>>],
      [token |-> FALSE, text |-> <<"{", "{", "#", "g", "i", "t", "}", "}">>, body |-> <<>>],
      [token |-> TRUE, text |-> <<"{", "{", "#", "g", "i", "t", " ", "s", "h", "o", "w", " ", "a", ":", "p", "}", "}">>, body |-> <<"s", "h", "o", "w", " ", "a", ":", "p">>],
      [token |-> TRUE, text |-> <<"{", "{", " ", "#", "g", "i", "t", " ", "s", "h", "o", "w", " ", "b", ":", "p", ":", "1", " ", "}", "}">>, body |-> <<"s", "h", "o", "w", " ", "b", ":", "p", ":", "1">>],
      [token |-> TRUE, text |-> <<"{", "{", "#", "g", "i", "t", " ", "s", "h", "o", "w", " ", "a", "}", "}">>, body |-> <<"s", "h", "o", "w", " ", "a">>],
      [token |-> TRUE, text |-> <<"{", "{", "#", "g", "i", "t", "\n", "d", "i", "f", "f", " ", "a", " ", "b", " ", "p", " ", "-", "h", "}", "}">>, body |-> <<"d", "i", "f", "f", " ", "a", " ", "b", " ", "p", " ", "-", "h">>] }

Flatten(pieces) == Join([k \in 1..Len(pieces) |-> pieces[k].text], <<>>)

Init ==
    /\ arg \in {[fn |-> "replace_all", pieces |-> ps] : ps \in Strs(Pieces, MaxPieces)}
    /\ s = Flatten(arg.pieces)
    /\ repo \in Repos \cup {NoRepo}
    /\ pc = "start"
    /\ replaced = <<>>
    /\ previous_end_index = 0
    /\ last_end = 0
    /\ ret = Idle
    /\ ret2 = Idle

\* let Some(repo) = default_repo else { return s.to_owned() }
ReturnUnconfigured ==
    /\ pc = "start"
    /\ ~repo.configured
    /\ replaced' = s
    /\ pc' = "done"
    /\ UNCHANGED <<s, repo, last_end, previous_end_index, arg, ret, ret2>>

\* The locals of replace_all are set and the iterator is created.
Begin ==
    /\ pc = "start"
    /\ repo.configured
    /\ replaced' = <<>>
    /\ previous_end_index' = 0
    /\ last_end' = 0
    /\ pc' = "loop"
    /\ UNCHANGED <<s, repo, arg, ret, ret2>>

\* filter_map drops a token GitCmd::try_from rejects.
SkipInvalidCmd ==
    /\ pc = "loop"
    /\ NextCaptures(s, last_end) # <<>>
    /\ LET m == NextCaptures(s, last_end)[1] IN
       /\ \E parsed \in TryFromResults(m.body) : ~parsed.cmd.ok
       /\ last_end' = m.end
    /\ UNCHANGED <<s, repo, pc, replaced, previous_end_index, arg, ret, ret2>>

\* The loop body for a command that resolves, with previous_end_index left
\* at the start of the token.
ReplaceCmdKeepingToken ==
    /\ pc = "loop"
    /\ NextCaptures(s, last_end) # <<>>
    /\ LET m == NextCaptures(s, last_end)[1] IN
       \E parsed \in TryFromResults(m.body) :
           /\ parsed.cmd.ok
           /\ Resolve(parsed.cmd, repo).ok
           /\ replaced' = replaced \o Slice(s, previous_end_index, m.start)
                                   \o Resolve(parsed.cmd, repo).contents
           /\ previous_end_index' = m.start
           /\ last_end' = m.end
    /\ UNCHANGED <<s, repo, pc, arg, ret, ret2>>

\* The loop body for a command that resolves.
ReplaceCmd ==
    /\ pc = "loop"
    /\ NextCaptures(s, last_end) # <<>>
    /\ LET m == NextCaptures(s, last_end)[1] IN
       \E parsed \in TryFromResults(m.body) :
           /\ parsed.cmd.ok
           /\ Resolve(parsed.cmd, repo).ok
           /\ replaced' = replaced \o Slice(s, previous_end_index, m.start)
                                   \o Resolve(parsed.cmd, repo).contents
           /\ previous_end_index' = m.end
           /\ last_end' = m.end
    /\ UNCHANGED <<s, repo, pc, arg, ret, ret2>>

\* The loop body for a command whose resolution fails.
KeepUnresolvedCmd ==
    /\ pc = "loop"
    /\ NextCaptures(s, last_end) # <<>>
    /\ LET m == NextCaptures(s, last_end)[1] IN
       \E parsed \in TryFromResults(m.body) :
           /\ parsed.cmd.ok
           /\ ~Resolve(parsed.cmd, repo).ok
           /\ replaced' = replaced \o Slice(s, previous_end_index, m.start)
           /\ last_end' = m.end
    /\ UNCHANGED <<s, repo, pc, previous_end_index, arg, ret, ret2>>

\* The iterator is exhausted: the rest of the text is pushed.
Finish ==
    /\ pc = "loop"
    /\ NextCaptures(s, last_end) = <<>>
    /\ replaced' = replaced \o Slice(s, previous_end_index, Len(s))
    /\ pc' = "done"
    /\ UNCHANGED <<s, repo, last_end, previous_end_index, arg, ret, ret2>>

Next ==
    \/ ReturnUnconfigured
    \/ Begin
    \/ SkipInvalidCmd
    \/ ReplaceCmd
    \/ KeepUnresolvedCmd
    \/ Finish

Spec == Init /\ [][Next]_vars

\* What the author's command of a token piece parses to.
ParsedPiece(piece) == (CHOOSE parsed \in TryFromResults(piece.body) : TRUE).cmd

Parses(piece) == piece.token /\ ParsedPiece(piece).ok

Resolves(piece, r) == Parses(piece) /\ Resolve(ParsedPiece(piece), r).ok

\* The text with every token that parses and resolves replaced by its
\* rendered text and every other piece as it was written.
Spliced(pieces, r) ==
    Join([k \in 1..Len(pieces) |->
             IF Resolves(pieces[k], r)
             THEN Resolve(ParsedPiece(pieces[k]), r).contents
             ELSE pieces[k].text],
         <<>>)

\* C1: with a repository configured, a text in which every token that
\* parses fails resolution is returned unchanged, byte for byte, whatever
\* precedes or follows the tokens.
C1_FailedResolutionVerbatim ==
    (/\ pc = "done"
     /\ repo.configured
     /\ \A k \in 1..Len(arg.pieces) : ~Resolves(arg.pieces[k], repo)) =>
        replaced = s

\* C2: with a repository configured, when every token that parses resolves,
\* the output is the input with each parsed token's span replaced by its
\* rendered text, left to right, and every byte outside those spans, tokens
\* that fail to parse included, once and in order.
C2_ParsedTokensSpliced ==
    (/\ pc = "done"
     /\ repo.configured
     /\ \A k \in 1..Len(arg.pieces) :
            Parses(arg.pieces[k]) => Resolves(arg.pieces[k], repo)) =>
        replaced = Spliced(arg.pieces, repo)

\* A token has been replaced after a token that failed to parse, with text
\* before the two.
C2_Witness ==
    /\ pc = "done"
    /\ repo.configured
    /\ Len(arg.pieces) = 3
    /\ ~arg.pieces[1].token
    /\ arg.pieces[2].token /\ ~Parses(arg.pieces[2])
    /\ Resolves(arg.pieces[3], repo)
    /\ replaced = arg.pieces[1].text \o arg.pieces[2].text
                      \o Resolve(ParsedPiece(arg.pieces[3]), repo).contents

=============================================================================
